---- MODULE Spec2Model ----
(***************************************************************************)
(* Speculative sampling with KV-cache trimming, as implemented in          *)
(* notebooks/speculative-sampling/speculative-sampling.ipynb:              *)
(*   - the tokenizer canary cell,                                          *)
(*   - autoregressive_sampling_with_pkv (naive greedy decoding),           *)
(*   - update_state (cache trimming),                                      *)
(*   - speculative_sampling_with_pkv (draft / verify / trim loop),         *)
(*   - main (runs the naive decoder, then the speculative decoder).        *)
(*                                                                         *)
(* The two language models are opaque: each is a deterministic greedy      *)
(* next-token function of the context it has been fed, the sequence of     *)
(* (token id, position id) pairs of its cache and of the call's inputs.    *)
(* The functions are built lazily: the first time a context is queried any *)
(* token may come out.  The verifier's answers along the greedy            *)
(* continuation of the prompt it was first run on (by the naive decoder)   *)
(* are remembered in vpath, which every later call consults.  An answer    *)
(* for a context off that path, and every answer of a draft model that is  *)
(* not the verifier, is not remembered: no model is asked about such a     *)
(* context twice (a later context holds an accepted token where an earlier *)
(* one held a rejected token, or is longer), so every deterministic pair   *)
(* of models is covered.                                                   *)
(***************************************************************************)
EXTENDS Integers, Sequences, FiniteSets, TLC

\* ------------------------------------------------------------------ bounds
MaxPrompt == 2
MaxK == 3
MaxN == 3
MaxKN == 5                 \* K + N at most: the work of one run of main()
NumLayers == 2
MaxCanaryLen == 2
MaxCacheLen == 3

\* Token ids.  The decoders only compare token ids for equality and hand them
\* to the models, so two ids let the models agree or disagree at any position.
Tokens == {0, 1}
Layers == 1..NumLayers
SeqsUpTo(S, n) == UNION {[1..m -> S] : m \in 0..n}
\* one prompt per length: the models being arbitrary functions of the prefix,
\* only the length of the prompt matters
Prompts == {[j \in 1..m |-> j % 2] : m \in 1..MaxPrompt}

\* a local that has not been assigned yet (Python: unbound name)
Unbound == 0 - 1

VARIABLES
    \* notebook globals / inputs
    tokens_1, tokens_2,      \* canary tokenization by draft / main tokenizer
    prompt, K, N,            \* arguments of main()
    sameModel,               \* the draft model is the verifier model
    faulty,                  \* the inference service may raise in this run
    vpath,                   \* the verifier's greedy path known so far: the <<token, position>>
                             \* pairs fed along it, then its pending answer <<token, Unbound>>
    pc,
    \* autoregressive_sampling_with_pkv locals
    ar_seq_len, ar_attention_mask, ar_cache, ar_next_token, ar_all_tokens, ar_ret,
    \* speculative_sampling_with_pkv locals
    seq_len, attention_mask, position_ids, input_ids,
    draft_cache, main_cache,
    first_token, next_token, i, accum_draft_tokens, next_tokens, disagree_idx,
    all_tokens, sp_ret,
    \* bookkeeping of forward passes
    ar_calls, draft_calls, main_calls, iters, failed,
    \* update_state applied on its own (TrimSpec)
    t_pc, t_orig, t_cache, t_target, t_first

vars == <<tokens_1, tokens_2, prompt, K, N, sameModel, faulty, vpath, pc,
          ar_seq_len, ar_attention_mask, ar_cache, ar_next_token, ar_all_tokens, ar_ret,
          seq_len, attention_mask, position_ids, input_ids, draft_cache, main_cache,
          first_token, next_token, i, accum_draft_tokens, next_tokens, disagree_idx,
          all_tokens, sp_ret, ar_calls, draft_calls, main_calls, iters, failed,
          t_pc, t_orig, t_cache, t_target, t_first>>

inputVars == <<tokens_1, tokens_2, prompt, K, N, sameModel, faulty>>
arVars == <<ar_seq_len, ar_attention_mask, ar_cache, ar_next_token, ar_all_tokens, ar_ret, ar_calls>>
spVars == <<seq_len, attention_mask, position_ids, input_ids, draft_cache, main_cache,
            first_token, next_token, i, accum_draft_tokens, next_tokens, disagree_idx,
            all_tokens, sp_ret, draft_calls, main_calls, iters>>
trimVars == <<t_pc, t_orig, t_cache, t_target, t_first>>

\* ------------------------------------------------------------ pure helpers
Range(lo, hi) == [j \in 1..(hi - lo) |-> lo + j - 1]      \* np.arange(lo, hi)

EmptyCache == [l \in Layers |-> <<>>]
CacheLen(c, l) == Len(c[l])                                \* state.state.shape[2]
CacheToks(c) == [j \in 1..Len(c[1]) |-> c[1][j][1]]        \* token ids the model has seen
CachePos(c) == [j \in 1..Len(c[1]) |-> c[1][j][2]]         \* position ids they were fed with

\* request.infer((input_ids, attention_mask, position_ids, beam_idx)): every
\* layer's key/value state grows by one entry per input token.
InferAppend(c, ids, pos) ==
    [l \in DOMAIN c |-> c[l] \o [j \in 1..Len(ids) |-> <<ids[j], pos[j]>>]]


\* ------------------------------------------------------- tokenizer canary
\* tokens_1 - tokens_2 on tensors of shape [1, a] and [1, b]: the sizes must be
\* equal or one of them 1 (broadcasting), otherwise the subtraction raises.
Broadcastable(t1, t2) == Len(t1) = Len(t2) \/ Len(t1) = 1 \/ Len(t2) = 1
BroadcastLen(t1, t2) ==
    IF Len(t1) = Len(t2) THEN Len(t1) ELSE IF Len(t1) = 1 THEN Len(t2) ELSE Len(t1)
At(t, j) == IF Len(t) = 1 THEN t[1] ELSE t[j]
TensorSub(t1, t2) == [j \in 1..BroadcastLen(t1, t2) |-> At(t1, j) - At(t2, j)]

\* assert all((tokens_1 - tokens_2)[0] == 0)
CanaryPasses(t1, t2) ==
    /\ Broadcastable(t1, t2)
    /\ \A j \in 1..BroadcastLen(t1, t2) : TensorSub(t1, t2)[j] = 0

\* --------------------------------------------------------- language models
IsPrefix(a, b) == Len(a) <= Len(b) /\ SubSeq(b, 1, Len(a)) = a

\* the context of a call: the entries of the cache followed by the call's
\* input tokens, each with the position id it is fed with
Ctx(c, ids, pos) == c[1] \o [j \in 1..Len(ids) |-> <<ids[j], pos[j]>>]

\* np.argmax(logits) of the verifier, whose greedy path known so far is `path`,
\* asked for the token that follows the context `ctx`: known if ctx is the
\* path up to some point, token ids and position ids alike.
Outcomes(path, ctx) ==
    IF Len(ctx) < Len(path) /\ SubSeq(path, 1, Len(ctx)) = ctx
    THEN {path[Len(ctx) + 1][1]}
    ELSE Tokens
\* ctx is the path with its pending answer fed as the next token
Extends(path, ctx) ==
    \/ path = <<>>
    \/ /\ Len(ctx) = Len(path)
       /\ SubSeq(ctx, 1, Len(ctx) - 1) = SubSeq(path, 1, Len(path) - 1)
       /\ ctx[Len(ctx)][1] = path[Len(path)][1]
       /\ path[Len(path)][2] = Unbound
Learn(path, ctx, t) == IF Extends(path, ctx) THEN Append(ctx, <<t, Unbound>>) ELSE path

\* A batched call: one prediction per input position j, each for the context
\* cache + ids[1..j].
BatchPrefix(c, ids, pos, j) == Ctx(c, SubSeq(ids, 1, j), SubSeq(pos, 1, j))
RECURSIVE LearnBatch(_, _, _, _, _, _)
LearnBatch(path, c, ids, pos, vt, n) ==
    IF n = 0 THEN path
    ELSE Learn(LearnBatch(path, c, ids, pos, vt, n - 1), BatchPrefix(c, ids, pos, n), vt[n])
BatchOutcomes(path, c, ids, pos) ==
    {vt \in [1..Len(ids) -> Tokens] :
        \A j \in 1..Len(ids) :
            vt[j] \in Outcomes(LearnBatch(path, c, ids, pos, vt, j - 1),
                               BatchPrefix(c, ids, pos, j))}

\* whether a forward pass returns (TRUE) or raises (FALSE)
InferOutcomes == IF faulty THEN BOOLEAN ELSE {TRUE}

\* (mutant) the exception is caught and what was decoded so far is returned
RaisedSwallowed ==
    /\ pc' = "done"
    /\ failed' = TRUE
    /\ sp_ret' = <<all_tokens>>
    /\ UNCHANGED ar_ret

\* An exception leaves the function: nothing is returned, nothing runs after it.
Raised ==
    /\ pc' = "error"
    /\ failed' = TRUE
    /\ UNCHANGED <<ar_ret, sp_ret>>

\* ------------------------------------------------------------ update_state
\* (mutant) the slice keeps one entry too many
UpdateStateKeepOne(c, t) ==
    [l \in DOMAIN c |-> IF t >= CacheLen(c, l) THEN c[l] ELSE SubSeq(c[l], 1, t + 1)]

\* (mutant) the slice keeps the last seq_len entries instead of the first
UpdateStateKeepLast(c, t) ==
    [l \in DOMAIN c |->
        IF t >= CacheLen(c, l) THEN c[l]
        ELSE SubSeq(c[l], CacheLen(c, l) - t + 1, CacheLen(c, l))]

\* (mutant) the slice drops seq_len entries instead of keeping seq_len
UpdateStateDropCount(c, t) ==
    [l \in DOMAIN c |->
        IF t >= CacheLen(c, l) THEN c[l] ELSE SubSeq(c[l], 1, CacheLen(c, l) - t)]

UpdateState(c, t) ==
    [l \in DOMAIN c |-> IF t >= CacheLen(c, l) THEN c[l] ELSE SubSeq(c[l], 1, t)]

\* ------------------------------------------------- acceptance (zip + break)
\* for disagree_idx, (t1, t2) in enumerate(zip(draft, verify)): if t1 != t2: break
ZipLen(draft, verify) == IF Len(draft) <= Len(verify) THEN Len(draft) ELSE Len(verify)
\* (mutant) the scan breaks on the first agreement instead of the first mismatch
DisagreeIdxOnEqual(old, draft, verify) ==
    LET n == ZipLen(draft, verify)
        same == {j \in 1..n : draft[j] = verify[j]}
    IN  IF n = 0 THEN old
        ELSE IF same = {} THEN n - 1
        ELSE (CHOOSE j \in same : \A k \in same : j <= k) - 1

\* (mutant) the scan has no break: it always ends at the last position
DisagreeIdxLast(old, draft, verify) ==
    IF ZipLen(draft, verify) = 0 THEN old ELSE ZipLen(draft, verify) - 1

\* (an empty zip leaves disagree_idx as it was: unbound in the first iteration)
DisagreeIdx(old, draft, verify) ==
    LET n == ZipLen(draft, verify)
        diff == {j \in 1..n : draft[j] # verify[j]}
    IN  IF n = 0 THEN old
        ELSE IF diff = {} THEN n - 1
        ELSE (CHOOSE j \in diff : \A k \in diff : j <= k) - 1

\* (mutant) the verifier's token at the disagreement position is left out
AcceptedUpToBreak(draft, verify, d) == SubSeq(verify, 1, d)

\* (mutant) the draft's tokens are appended instead of the verifier's
AcceptedDraft(draft, verify, d) == SubSeq(draft, 1, d + 1)

\* all_tokens.extend(next_tokens[: disagree_idx + 1]): the verifier's tokens,
\* not the draft's
Accepted(draft, verify, d) == SubSeq(verify, 1, d + 1)

\* (mutant) the token at the disagreement position is not counted
GrowNoBonus(s, d) == s + d

\* (mutant) seq_len += 1, as in the naive loop
GrowByOne(s, d) == s + 1

\* (mutant) every proposed token is counted as accepted
GrowAllProposed(s, d) == s + K

\* seq_len += disagree_idx + 1
Grow(s, d) == s + d + 1

\* (mutant) the naive loop runs once more at seq_len = N
ArLoopCondLe(s, n) == s <= n

\* while seq_len < N (naive decoder)
ArLoopCond(s, n) == s < n

\* (mutant) the loop stops only when seq_len hits N exactly
SpLoopCondNe(s, n) == s # n

\* (mutant) the loop runs once more at seq_len = N
SpLoopCondLe(s, n) == s <= n

\* while seq_len < N (speculative decoder)
SpLoopCond(s, n) == s < n

\* (mutant) range(K + 1): one proposal too many
DraftRoundsPlusOne(k, s, n) == k + 1

\* (mutant) no more proposals are drafted than tokens are missing
DraftRoundsCapped(k, s, n) == IF k <= n - s THEN k ELSE n - s

\* for i in range(K): the number of draft calls of an iteration, whatever
\* seq_len and N are
DraftRounds(k, s, n) == k

\* ------------------------------------------------------------------- Init
InitLocals ==
    /\ vpath = <<>>
    /\ ar_seq_len = 0 /\ ar_attention_mask = 0 /\ ar_cache = EmptyCache
    /\ ar_next_token = Unbound /\ ar_all_tokens = <<>> /\ ar_ret = <<>>
    /\ seq_len = 0 /\ attention_mask = 0 /\ position_ids = <<>> /\ input_ids = <<>>
    /\ draft_cache = EmptyCache /\ main_cache = EmptyCache
    /\ first_token = Unbound /\ next_token = Unbound /\ i = 0
    /\ accum_draft_tokens = <<>> /\ next_tokens = <<>> /\ disagree_idx = Unbound
    /\ all_tokens = <<>> /\ sp_ret = <<>>
    /\ ar_calls = 0 /\ draft_calls = 0 /\ main_calls = 0 /\ iters = 0 /\ failed = FALSE

TrimOff ==
    /\ t_pc = "off" /\ t_orig = EmptyCache /\ t_cache = EmptyCache
    /\ t_target = 0 /\ t_first = EmptyCache

\* main() called with a prompt, N and K, the two tokenizers agreeing on the canary
Init ==
    /\ tokens_1 = <<0, 1>> /\ tokens_2 = <<0, 1>>
    /\ prompt \in Prompts
    /\ N \in 0..MaxN
    /\ K \in {k \in 0..MaxK : k + N <= MaxKN}
    /\ sameModel \in BOOLEAN
    /\ faulty \in BOOLEAN
    /\ pc = "canary"
    /\ InitLocals
    /\ TrimOff

\* -------------------------------------------------- tokenizer canary cell
CanaryCheck ==
    /\ pc = "canary"
    /\ pc' = IF CanaryPasses(tokens_1, tokens_2) THEN "ar_prime" ELSE "aborted"
    /\ UNCHANGED <<inputVars, vpath, arVars, spVars, failed, trimVars>>

\* ---------------------------------------- autoregressive_sampling_with_pkv
\* the first inference: the whole encoded prompt
ArPrime ==
    /\ pc = "ar_prime"
    /\ ar_calls' = ar_calls + 1
    /\ ar_seq_len' = Len(prompt)
    /\ ar_attention_mask' = Len(prompt)
    /\ \E ok \in InferOutcomes :
        IF ~ok
        THEN /\ Raised
             /\ UNCHANGED <<vpath, ar_cache, ar_next_token, ar_all_tokens>>
        ELSE \E t \in Outcomes(vpath, Ctx(EmptyCache, prompt, Range(0, Len(prompt)))) :
             /\ vpath' = Learn(vpath, Ctx(EmptyCache, prompt, Range(0, Len(prompt))), t)
             /\ ar_cache' = InferAppend(EmptyCache, prompt, Range(0, Len(prompt)))
             /\ ar_next_token' = t
             /\ ar_all_tokens' = prompt \o <<t>>
             /\ pc' = "ar_loop"
             /\ UNCHANGED <<ar_ret, sp_ret, failed>>
    /\ UNCHANGED <<inputVars, spVars, trimVars>>

\* one pass of `while seq_len < N`: feed the last token, take the argmax
ArStep ==
    /\ pc = "ar_loop"
    /\ ArLoopCond(ar_seq_len, N)
    /\ ar_calls' = ar_calls + 1
    /\ ar_attention_mask' = ar_attention_mask + 1
    /\ \E ok \in InferOutcomes :
        IF ~ok
        THEN /\ Raised
             /\ UNCHANGED <<vpath, ar_cache, ar_next_token, ar_all_tokens, ar_seq_len>>
        ELSE \E t \in Outcomes(vpath, Ctx(ar_cache, <<ar_next_token>>, <<ar_attention_mask'>>)) :
             /\ vpath' = Learn(vpath, Ctx(ar_cache, <<ar_next_token>>, <<ar_attention_mask'>>), t)
             /\ ar_cache' = InferAppend(ar_cache, <<ar_next_token>>, <<ar_attention_mask'>>)
             /\ ar_next_token' = t
             /\ ar_all_tokens' = Append(ar_all_tokens, t)
             /\ ar_seq_len' = ar_seq_len + 1
             /\ pc' = "ar_loop"
             /\ UNCHANGED <<ar_ret, sp_ret, failed>>
    /\ UNCHANGED <<inputVars, spVars, trimVars>>

\* return all_tokens; main() goes on to the speculative decoder
ArReturn ==
    /\ pc = "ar_loop"
    /\ ~ArLoopCond(ar_seq_len, N)
    /\ ar_ret' = <<ar_all_tokens>>
    /\ pc' = "sp_prime"
    /\ UNCHANGED <<inputVars, vpath, ar_seq_len, ar_attention_mask, ar_cache,
                   ar_next_token, ar_all_tokens, ar_calls, spVars, failed, trimVars>>

\* ------------------------------------------ speculative_sampling_with_pkv
\* the answers of the draft model: the verifier's when both are the same
\* model, any token otherwise
DraftOutcomes(ctx) == IF sameModel THEN Outcomes(vpath, ctx) ELSE Tokens

\* (mutant) only the last prompt token leaves an entry in the cache
PromptPassLastOnly(p) == InferAppend(EmptyCache, <<p[Len(p)]>>, <<Len(p) - 1>>)

\* request.infer on the whole prompt with position ids 0..prompt_len-1, from
\* an empty cache
PromptPass(p) == InferAppend(EmptyCache, p, Range(0, Len(p)))

\* PRIME: both models run once on the whole prompt; the main model's argmax is
\* the first token
SpPrime ==
    /\ pc = "sp_prime"
    /\ seq_len' = Len(prompt)
    /\ attention_mask' = Len(prompt)
    /\ position_ids' = Range(0, Len(prompt))
    /\ input_ids' = prompt
    /\ draft_calls' = draft_calls + 1
    /\ \E okd \in InferOutcomes, okm \in InferOutcomes :
        IF ~okd
        THEN /\ Raised
             /\ UNCHANGED <<vpath, draft_cache, main_cache, main_calls, first_token, all_tokens>>
        ELSE IF ~okm
        THEN /\ Raised
             /\ draft_cache' = PromptPass(prompt)
             /\ main_calls' = main_calls + 1
             /\ UNCHANGED <<vpath, main_cache, first_token, all_tokens>>
        ELSE \E t \in Outcomes(vpath, Ctx(EmptyCache, prompt, Range(0, Len(prompt)))) :
             /\ vpath' = Learn(vpath, Ctx(EmptyCache, prompt, Range(0, Len(prompt))), t)
             /\ draft_cache' = PromptPass(prompt)
             /\ main_cache' = PromptPass(prompt)
             /\ main_calls' = main_calls + 1
             /\ first_token' = t
             /\ all_tokens' = prompt \o <<t>>
             /\ pc' = "sp_loop"
             /\ UNCHANGED <<ar_ret, sp_ret, failed>>
    /\ UNCHANGED <<inputVars, ar_seq_len, ar_attention_mask, ar_cache, ar_next_token,
                   ar_all_tokens, ar_calls, next_token, i, accum_draft_tokens, next_tokens,
                   disagree_idx, iters, trimVars>>

\* (mutant) next_token is not reset to first_token: the draft loop goes on
\* from the token it proposed last
SpLoopNoReset ==
    /\ pc = "sp_loop"
    /\ SpLoopCond(seq_len, N)
    /\ i' = 0
    /\ iters' = iters + 1
    /\ pc' = IF 0 < DraftRounds(K, seq_len, N) THEN "draft" ELSE "verify"
    /\ UNCHANGED <<inputVars, vpath, arVars, seq_len, attention_mask, position_ids,
                   input_ids, draft_cache, main_cache, first_token, next_token,
                   accum_draft_tokens, next_tokens, disagree_idx, all_tokens, sp_ret,
                   draft_calls, main_calls, failed, trimVars>>

\* `while seq_len < N` holds: next_token = first_token, the draft loop starts
SpLoop ==
    /\ pc = "sp_loop"
    /\ SpLoopCond(seq_len, N)
    /\ next_token' = first_token
    /\ i' = 0
    /\ iters' = iters + 1
    /\ pc' = IF 0 < DraftRounds(K, seq_len, N) THEN "draft" ELSE "verify"
    /\ UNCHANGED <<inputVars, vpath, arVars, seq_len, attention_mask, position_ids,
                   input_ids, draft_cache, main_cache, first_token, accum_draft_tokens,
                   next_tokens, disagree_idx, all_tokens, sp_ret, draft_calls, main_calls,
                   failed, trimVars>>

\* the loop is left: all_tokens.extend(accum_draft_tokens); return all_tokens
SpReturn ==
    /\ pc = "sp_loop"
    /\ ~SpLoopCond(seq_len, N)
    /\ all_tokens' = all_tokens \o accum_draft_tokens
    /\ sp_ret' = <<all_tokens'>>
    /\ pc' = "done"
    /\ UNCHANGED <<inputVars, vpath, arVars, seq_len, attention_mask, position_ids,
                   input_ids, draft_cache, main_cache, first_token, next_token, i,
                   accum_draft_tokens, next_tokens, disagree_idx, draft_calls, main_calls,
                   iters, failed, trimVars>>

\* (mutant) the draft pass is run on the main model's request: it is the
\* verifier's cache that grows
DraftStepOnMainRequest ==
    /\ pc = "draft"
    /\ i < DraftRounds(K, seq_len, N)
    /\ input_ids' = <<next_token>>
    /\ attention_mask' = attention_mask + 1
    /\ position_ids' = <<attention_mask'>>
    /\ draft_calls' = draft_calls + 1
    /\ \E ok \in InferOutcomes :
        IF ~ok
        THEN /\ Raised
             /\ UNCHANGED <<vpath, draft_cache, main_cache, next_token, accum_draft_tokens, i>>
        ELSE \E t \in DraftOutcomes(Ctx(draft_cache, input_ids', position_ids')) :
             /\ vpath' = IF sameModel
                         THEN Learn(vpath, Ctx(draft_cache, input_ids', position_ids'), t)
                         ELSE vpath
             /\ main_cache' = InferAppend(main_cache, input_ids', position_ids')
             /\ UNCHANGED draft_cache
             /\ next_token' = t
             /\ accum_draft_tokens' = Append(accum_draft_tokens, t)
             /\ i' = i + 1
             /\ pc' = IF i + 1 < DraftRounds(K, seq_len, N) THEN "draft" ELSE "verify"
             /\ UNCHANGED <<ar_ret, sp_ret, failed>>
    /\ UNCHANGED <<inputVars, arVars, seq_len, first_token, next_tokens,
                   disagree_idx, all_tokens, main_calls, iters, trimVars>>

\* DRAFT: one pass of `for i in range(K)`: the draft model is fed next_token
DraftStep ==
    /\ pc = "draft"
    /\ i < DraftRounds(K, seq_len, N)
    /\ input_ids' = <<next_token>>
    /\ attention_mask' = attention_mask + 1
    /\ position_ids' = <<attention_mask'>>
    /\ draft_calls' = draft_calls + 1
    /\ \E ok \in InferOutcomes :
        IF ~ok
        THEN /\ Raised
             /\ UNCHANGED <<vpath, draft_cache, next_token, accum_draft_tokens, i>>
        ELSE \E t \in DraftOutcomes(Ctx(draft_cache, input_ids', position_ids')) :
             /\ vpath' = IF sameModel
                         THEN Learn(vpath, Ctx(draft_cache, input_ids', position_ids'), t)
                         ELSE vpath
             /\ draft_cache' = InferAppend(draft_cache, input_ids', position_ids')
             /\ next_token' = t
             /\ accum_draft_tokens' = Append(accum_draft_tokens, t)
             /\ i' = i + 1
             /\ pc' = IF i + 1 < DraftRounds(K, seq_len, N) THEN "draft" ELSE "verify"
             /\ UNCHANGED <<ar_ret, sp_ret, failed>>
    /\ UNCHANGED <<inputVars, arVars, seq_len, main_cache, first_token, next_tokens,
                   disagree_idx, all_tokens, main_calls, iters, trimVars>>

\* (mutant) accum_draft_tokens[1:]: the first proposal is dropped, not the last
AllButFirst(s) == IF Len(s) = 0 THEN <<>> ELSE Tail(s)

\* accum_draft_tokens[:-1]
AllButLast(s) == IF Len(s) = 0 THEN <<>> ELSE SubSeq(s, 1, Len(s) - 1)

\* (mutant) the verifier's position ids start one too high
VerifyPositionIdsShifted(s, k) == Range(s + 1, s + k + 1)

\* position_ids = np.arange(seq_len, seq_len + K)
VerifyPositionIds(s, k) == Range(s, s + k)

\* VERIFY: the main model is fed first_token and all draft tokens but the last
\* in one batch; the scan for the first disagreement; the accepted tokens are
\* appended and seq_len grows
Verify ==
    /\ pc = "verify"
    /\ input_ids' = <<first_token>> \o AllButLast(accum_draft_tokens)
    /\ attention_mask' = seq_len + K
    /\ position_ids' = VerifyPositionIds(seq_len, K)
    /\ main_calls' = main_calls + 1
    /\ \E ok \in InferOutcomes :
        IF ~ok
        THEN /\ Raised
             /\ UNCHANGED <<vpath, main_cache, next_tokens, disagree_idx, first_token,
                            all_tokens, seq_len>>
        ELSE IF Len(input_ids') # Len(position_ids')
        \* K = 0: one input token and no position id.  Whether the runtime raises
        \* on the shapes or returns, the empty zip leaves disagree_idx unbound
        \* and next_tokens[disagree_idx] raises.
        THEN /\ pc' = "error"
             /\ failed' \in BOOLEAN
             /\ UNCHANGED <<ar_ret, sp_ret, vpath, main_cache, next_tokens, disagree_idx,
                            first_token, all_tokens, seq_len>>
        ELSE \E vt \in BatchOutcomes(vpath, main_cache, input_ids', position_ids') :
             /\ vpath' = LearnBatch(vpath, main_cache, input_ids', position_ids', vt, Len(vt))
             /\ main_cache' = InferAppend(main_cache, input_ids', position_ids')
             /\ next_tokens' = vt
             /\ disagree_idx' = DisagreeIdx(disagree_idx, accum_draft_tokens, vt)
             /\ first_token' = vt[disagree_idx' + 1]
             /\ all_tokens' = all_tokens \o Accepted(accum_draft_tokens, vt, disagree_idx')
             /\ seq_len' = Grow(seq_len, disagree_idx')
             /\ pc' = "trim"
             /\ UNCHANGED <<ar_ret, sp_ret, failed>>
    /\ UNCHANGED <<inputVars, arVars, draft_cache, next_token, i, accum_draft_tokens,
                   draft_calls, iters, trimVars>>

\* (mutant) only the draft request is trimmed
TrimDraftOnly ==
    /\ pc = "trim"
    /\ draft_cache' = UpdateState(draft_cache, seq_len)
    /\ attention_mask' = seq_len
    /\ accum_draft_tokens' = <<>>
    /\ pc' = "sp_loop"
    /\ UNCHANGED <<inputVars, vpath, arVars, seq_len, position_ids, input_ids, main_cache,
                   first_token, next_token, i, next_tokens, disagree_idx, all_tokens, sp_ret,
                   draft_calls, main_calls, iters, failed, trimVars>>

\* TRIM: update_state on both requests, the mask and the proposal batch reset
Trim ==
    /\ pc = "trim"
    /\ draft_cache' = UpdateState(draft_cache, seq_len)
    /\ main_cache' = UpdateState(main_cache, seq_len)
    /\ attention_mask' = seq_len
    /\ accum_draft_tokens' = <<>>
    /\ pc' = "sp_loop"
    /\ UNCHANGED <<inputVars, vpath, arVars, seq_len, position_ids, input_ids,
                   first_token, next_token, i, next_tokens, disagree_idx, all_tokens, sp_ret,
                   draft_calls, main_calls, iters, failed, trimVars>>

Next ==
    \/ CanaryCheck
    \/ ArPrime
    \/ ArStep
    \/ ArReturn
    \/ SpPrime
    \/ SpLoop
    \/ SpReturn
    \/ DraftStep
    \/ Verify
    \/ Trim

Spec == Init /\ [][Next]_vars

\* the loop is a single thread that runs until it returns or raises
FairSpec == Spec /\ WF_vars(Next)

\* ---------------------------------------------- the notebook run from the
\* canary cell on, for any pair of tokenizers, with one fixed call of main()
CanaryInit ==
    /\ tokens_1 \in SeqsUpTo(Tokens, MaxCanaryLen) \ {<<>>}
    /\ tokens_2 \in SeqsUpTo(Tokens, MaxCanaryLen) \ {<<>>}
    /\ prompt \in {q \in Prompts : Len(q) = 1}
    /\ K = 1
    /\ N = 2
    /\ sameModel = FALSE
    /\ faulty = FALSE
    /\ pc = "canary"
    /\ InitLocals
    /\ TrimOff

CanarySpec == CanaryInit /\ [][Next]_vars

\* ----------------------------------- update_state called twice on any cache
\* a layer of n entries, each its own (token, position) pair; the layers of a
\* cache may have any lengths
TrimLayer(n) == [j \in 1..n |-> <<j % 2, j - 1>>]

TrimInit ==
    /\ t_pc = "t0"
    /\ t_orig \in {[l \in Layers |-> TrimLayer(n[l])] : n \in [Layers -> 0..MaxCacheLen]}
    /\ t_cache = t_orig
    /\ t_target \in 0..(MaxCacheLen + 1)
    /\ t_first = EmptyCache
    /\ tokens_1 = <<0, 1>> /\ tokens_2 = <<0, 1>>
    /\ prompt \in {q \in Prompts : Len(q) = 1}
    /\ K = 1 /\ N = 0 /\ sameModel = FALSE /\ faulty = FALSE
    /\ pc = "off"
    /\ InitLocals

TrimFirst ==
    /\ t_pc = "t0"
    /\ t_cache' = UpdateState(t_cache, t_target)
    /\ t_first' = t_cache'
    /\ t_pc' = "t1"
    /\ UNCHANGED <<inputVars, vpath, pc, arVars, spVars, failed, t_orig, t_target>>

TrimSecond ==
    /\ t_pc = "t1"
    /\ t_cache' = UpdateState(t_cache, t_target)
    /\ t_pc' = "t2"
    /\ UNCHANGED <<inputVars, vpath, pc, arVars, spVars, failed, t_orig, t_target, t_first>>

TrimNext == TrimFirst \/ TrimSecond

TrimSpec == TrimInit /\ [][TrimNext]_vars

\* ================================================================ claims
PromptLen == Len(prompt)
\* verifier forward passes made inside the speculative loop (all but PRIME's)
SpLoopPasses == IF main_calls = 0 THEN 0 ELSE main_calls - 1
\* verifier forward passes made inside the naive loop (all but the prompt's)
ArLoopPasses == IF ar_calls = 0 THEN 0 ELSE ar_calls - 1
\* ceil(a / b) for b >= 1
CeilDiv(a, b) == (a + b - 1) \div b
AllLayersAt(c, n) == \A l \in Layers : CacheLen(c, l) = n

\* C1: for K >= 1 the sequence returned by speculative_sampling_with_pkv is
\* identical, token for token and in length, to the one returned by
\* autoregressive_sampling_with_pkv for the same prompt and N.
C1_OutputIdentical ==
    (pc = "done" /\ K >= 1) => sp_ret = ar_ret

\* C2: every DRAFT -> VERIFY -> TRIM iteration increases seq_len by at least
\* 1; for K >= 1 the loop makes at most N - prompt_len iterations and, no
\* forward pass failing, always reaches DONE.
C2_Progress ==
    /\ [][(pc = "verify" /\ pc' = "trim") => seq_len' >= seq_len + 1]_vars
    /\ [](K >= 1 => (iters = 0 \/ iters <= N - PromptLen))
    /\ ((pc = "sp_loop" /\ K >= 1 /\ ~faulty) ~> (pc = "done"))

\* the loop ran its worst case: N - prompt_len >= 2 iterations of one token each
C2_Witness ==
    /\ pc = "done" /\ K >= 2 /\ ~faulty
    /\ iters >= 2 /\ iters = N - PromptLen

\* C3: at the start of every loop iteration and at DONE (that is, after PRIME
\* and after every TRIM, until the first draft call of the next iteration)
\* every layer of the draft cache and of the verifier cache has length seq_len.
C3_CacheConsistency ==
    (pc \in {"sp_loop", "done"} \/ (pc = "draft" /\ i = 0)) =>
        (AllLayersAt(draft_cache, seq_len) /\ AllLayersAt(main_cache, seq_len))

\* a TRIM that cut rejected entries off both caches has run
C3_Witness ==
    /\ pc = "sp_loop" /\ iters >= 1 /\ K >= 2
    /\ disagree_idx < K - 1
    /\ AllLayersAt(main_cache, seq_len) /\ seq_len > PromptLen

\* C4: update_state called twice in a row with the same target length leaves
\* the cache after the second call exactly as it was after the first.
C4_TrimIdempotent ==
    t_pc = "t2" => t_cache = t_first

\* the first call truncated one layer and left another, shorter one untouched
C4_Witness ==
    /\ t_pc = "t2"
    /\ \E l \in Layers : CacheLen(t_orig, l) > t_target /\ CacheLen(t_cache, l) = t_target
    /\ \E l \in Layers : CacheLen(t_orig, l) < t_target /\ t_cache[l] = t_orig[l]
    /\ t_target > 0

\* C5: with K = 1 every iteration grows the confirmed sequence by exactly one
\* token, and the final output equals the naive decoder's.
C5_LockStep ==
    K = 1 =>
        /\ pc \in {"sp_loop", "trim", "done"} =>
              (seq_len = PromptLen + iters /\ Len(all_tokens) = seq_len + 1)
        /\ pc = "trim" => disagree_idx = 0
        /\ pc = "done" => sp_ret = ar_ret

\* C6: with a draft model identical to the verifier every iteration accepts
\* all K tokens, the loop finishes in exactly ceil((N - prompt_len) / K)
\* iterations and the output equals the naive decoder's.
C6_IdenticalModels ==
    (sameModel /\ K >= 1) =>
        /\ pc = "trim" => (disagree_idx = K - 1 /\ next_tokens = accum_draft_tokens)
        /\ pc \in {"sp_loop", "trim", "done"} => seq_len = PromptLen + K * iters
        /\ pc = "done" =>
              /\ iters = IF PromptLen < N THEN CeilDiv(N - PromptLen, K) ELSE 0
              /\ sp_ret = ar_ret

\* C7: for K >= 1 and prompt_len < N the speculative loop makes at most N
\* verifier forward passes and never more than the N - prompt_len passes the
\* naive loop makes.
C7_VerifierPasses ==
    (K >= 1 /\ PromptLen < N) =>
        /\ SpLoopPasses <= N
        /\ SpLoopPasses <= N - PromptLen
        /\ ar_ret # <<>> => ArLoopPasses = N - PromptLen

\* the speculative loop finished in fewer verifier passes than the naive loop
C7_Witness ==
    /\ pc = "done" /\ K >= 2 /\ PromptLen < N
    /\ SpLoopPasses >= 1 /\ SpLoopPasses < ArLoopPasses

\* C8: K = 0 is rejected with an error before the decoding loop runs: the
\* loop is never entered and no token sequence is returned.
C8_KZeroRejected ==
    K = 0 => (iters = 0 /\ sp_ret = <<>>)

\* C9: tokenizers that produce different token ids for the canary string make
\* the check fail: the run aborts and no forward pass is ever executed.
C9_CanaryAborts ==
    tokens_1 # tokens_2 =>
        (pc \in {"canary", "aborted"} /\ ar_calls = 0 /\ draft_calls = 0 /\ main_calls = 0)

\* C10: a forward pass that fails ends the generation in an error: no step is
\* taken after the failure and the speculative decoder returns no sequence.
C10_FailureIsFatal ==
    /\ [](failed => (pc = "error" /\ sp_ret = <<>>))
    /\ [][~failed]_vars

\* a forward pass failed after tokens had been accepted in the loop
C10_Witness ==
    /\ failed /\ pc = "error" /\ K >= 1
    /\ iters >= 2 /\ Len(all_tokens) > PromptLen + 1
    /\ sp_ret = <<>>

\* C12: every iteration with K >= 1 grows the confirmed sequence (seq_len and
\* all_tokens) by exactly disagree_idx + 1, a number between 1 and K; when the
\* draft disagrees with the verifier at position 0 the growth is exactly 1.
C12_GrowthPerIteration ==
    [][(pc = "verify" /\ pc' = "trim" /\ K >= 1) =>
        /\ seq_len' - seq_len = disagree_idx' + 1
        /\ Len(all_tokens') - Len(all_tokens) = disagree_idx' + 1
        /\ seq_len' - seq_len \in 1..K
        /\ (accum_draft_tokens[1] # next_tokens'[1] => seq_len' - seq_len = 1)]_vars

\* a verified iteration with K >= 2 whose first proposal was rejected
C12_Witness ==
    /\ pc = "trim" /\ K >= 2 /\ iters >= 2
    /\ accum_draft_tokens[1] # next_tokens[1]
    /\ disagree_idx = 0
\* the 0-based positions at which the draft's proposal and the verifier's
\* prediction of the iteration just verified differ
Mismatches == {j \in 0..(K - 1) : accum_draft_tokens[j + 1] # next_tokens[j + 1]}

\* C13: for K >= 1, disagree_idx is the smallest i in 0..K-1 with
\* draft[i] # verify[i], and K - 1 when all K positions agree; so full agreement
\* and a disagreement only at the last position give the same index.
C13_FirstDisagreement ==
    (pc = "trim" /\ K >= 1) =>
        /\ Len(accum_draft_tokens) = K /\ Len(next_tokens) = K
        /\ (Mismatches # {} =>
               (disagree_idx \in Mismatches /\ \A j \in Mismatches : disagree_idx <= j))
        /\ (Mismatches = {} => disagree_idx = K - 1)
        /\ (Mismatches \subseteq {K - 1} => disagree_idx = K - 1)

\* an iteration with K = 3 whose first disagreement is in the middle, the last
\* position disagreeing as well
C13_Witness ==
    pc = "trim" /\ K = 3 /\ disagree_idx = 1 /\ Mismatches = {1, 2}

\* C14: the tokens appended in an iteration are exactly
\* verify[0..disagree_idx], in order, and nothing else of all_tokens changes;
\* for every i < disagree_idx the appended token also equals draft[i].
C14_AppendedTokens ==
    [][(pc = "verify" /\ pc' = "trim") =>
        /\ Len(all_tokens') = Len(all_tokens) + disagree_idx' + 1
        /\ \A j \in 1..Len(all_tokens) : all_tokens'[j] = all_tokens[j]
        /\ \A j \in 0..disagree_idx' :
               all_tokens'[Len(all_tokens) + j + 1] = next_tokens'[j + 1]
        /\ \A j \in 0..(disagree_idx' - 1) :
               all_tokens'[Len(all_tokens) + j + 1] = accum_draft_tokens[j + 1]]_vars

\* an iteration that appended three tokens, the third one the verifier's own
\* where the draft proposed another
C14_Witness ==
    /\ pc = "trim" /\ K = 3 /\ disagree_idx = 2
    /\ accum_draft_tokens[3] # next_tokens[3]
    /\ all_tokens[Len(all_tokens)] = next_tokens[3]

\* C15 as claimed: the acceptance result is the index of the first position
\* where the draft's token differs from the verifier's, ranges over 0..K, and
\* is K when all K proposed tokens agree.
C15_AcceptanceUpToK ==
    (pc = "trim" /\ K >= 1) =>
        /\ disagree_idx \in 0..K
        /\ (Mismatches # {} =>
               (disagree_idx \in Mismatches /\ \A j \in Mismatches : disagree_idx <= j))
        /\ (Mismatches = {} => disagree_idx = K)

\* C15 (amended): the acceptance result ranges over 0..K-1: every position
\* below it agrees, it is a position of disagreement unless it is the last
\* position K - 1, and it is K - 1 when all K proposed tokens agree.
C15_AcceptanceResult ==
    (pc = "trim" /\ K >= 1) =>
        /\ disagree_idx \in 0..(K - 1)
        /\ \A j \in 0..(disagree_idx - 1) : accum_draft_tokens[j + 1] = next_tokens[j + 1]
        /\ (disagree_idx < K - 1 =>
               accum_draft_tokens[disagree_idx + 1] # next_tokens[disagree_idx + 1])
        /\ ((\A j \in 1..K : accum_draft_tokens[j] = next_tokens[j]) => disagree_idx = K - 1)

\* an iteration in which the verifier agreed with all K >= 2 proposed tokens
C15_Witness ==
    /\ pc = "trim" /\ K >= 2
    /\ \A j \in 1..K : accum_draft_tokens[j] = next_tokens[j]
    /\ disagree_idx = K - 1
\* seq_len at the start of the iteration just verified, and the confirmed
\* sequence of that moment, the last accepted token included
SeqLenBefore == seq_len - disagree_idx - 1
ConfirmedBefore == SubSeq(all_tokens, 1, SeqLenBefore + 1)

\* C16: for every i in 0..K-1, draft[i] and verify[i] are predictions after
\* the same prefix, the confirmed sequence with the last accepted token
\* followed by draft[0..i-1] (both models have been fed exactly these tokens,
\* prediction i being made after the first seq_len + 1 + i of them); the
\* verifier has been fed each of them with its index in the sequence as
\* position id, as a verifier decoding that prefix alone would be.
C16_SamePrefix ==
    (pc = "trim" /\ K >= 1) =>
        /\ CacheToks(draft_cache) =
               ConfirmedBefore \o SubSeq(accum_draft_tokens, 1, K - 1)
        /\ CacheToks(main_cache) = CacheToks(draft_cache)
        /\ \A j \in 1..CacheLen(main_cache, 1) : CachePos(main_cache)[j] = j - 1

\* a later iteration with K >= 2 in which the verifier followed the draft for
\* one token and then disagreed
C16_Witness ==
    pc = "trim" /\ K >= 2 /\ iters >= 2 /\ disagree_idx = 1 /\ 1 \in Mismatches

\* C17 as claimed: the verifier's batched call is made with the verifier cache
\* at length seq_len and is fed the K proposed tokens draft[0..K-1], an
\* attention mask of length seq_len + K and position ids seq_len..seq_len+K-1.
C17_VerifierFedProposals ==
    [][(pc = "verify" /\ K >= 1) =>
        /\ AllLayersAt(main_cache, seq_len)
        /\ input_ids' = accum_draft_tokens
        /\ attention_mask' = seq_len + K
        /\ position_ids' = [j \in 1..K |-> seq_len + j - 1]]_vars

\* C17 (amended): the verifier's batched call is made with the verifier cache
\* at length seq_len and is fed K token ids, the last accepted token followed
\* by the proposals draft[0..K-2] (the last proposal is not fed), an attention
\* mask of length seq_len + K and position ids seq_len..seq_len+K-1.
C17_VerifierInputs ==
    [][(pc = "verify" /\ K >= 1) =>
        /\ AllLayersAt(main_cache, seq_len)
        /\ Len(input_ids') = K
        /\ input_ids'[1] = all_tokens[Len(all_tokens)]
        /\ \A j \in 1..(K - 1) : input_ids'[j + 1] = accum_draft_tokens[j]
        /\ attention_mask' = seq_len + K
        /\ position_ids' = [j \in 1..K |-> seq_len + j - 1]]_vars

\* a verifier call of a later iteration, completed, whose K >= 2 inputs were
\* not the K proposals
C17_Witness ==
    /\ pc = "trim" /\ K >= 2 /\ iters >= 2
    /\ input_ids # accum_draft_tokens
    /\ input_ids = <<all_tokens[SeqLenBefore + 1]>> \o SubSeq(accum_draft_tokens, 1, K - 1)
    /\ position_ids = [j \in 1..K |-> SeqLenBefore + j - 1]

\* C18: the first draft call of an iteration is fed the last token accepted so
\* far (the primer token in the first iteration, verify[disagree_idx] of the
\* previous iteration afterwards); each later draft call of the iteration is
\* fed the token the preceding draft call produced.
C18_DraftInputs ==
    [][(pc = "draft") =>
        /\ Len(input_ids') = 1
        /\ (i = 0 => input_ids'[1] = all_tokens[Len(all_tokens)])
        /\ ((i = 0 /\ iters = 1) => input_ids'[1] = all_tokens[PromptLen + 1])
        /\ ((i = 0 /\ iters >= 2) => input_ids'[1] = next_tokens[disagree_idx + 1])
        /\ (i >= 1 => (Len(accum_draft_tokens) = i /\ input_ids'[1] = accum_draft_tokens[i]))]_vars

\* the draft calls of a later iteration with K >= 2 are done: the first was fed
\* the verifier's token at the last disagreement, the last the draft's own
\* previous token
C18_Witness ==
    /\ pc = "verify" /\ K >= 2 /\ iters >= 2
    /\ CacheToks(draft_cache)[seq_len + 1] = next_tokens[disagree_idx + 1]
    /\ input_ids = <<accum_draft_tokens[K - 1]>>
    /\ accum_draft_tokens[K - 1] # next_tokens[disagree_idx + 1]

\* C19: in every outer iteration the draft model is called exactly K times and
\* then the verifier exactly once, however few tokens are missing before N;
\* the verifier's call starts only when all K draft calls of the iteration are
\* done.  (Both call counters include PRIME's one call.)
C19_CallsPerIteration ==
    /\ (pc = "draft" =>
           /\ i < K /\ Len(accum_draft_tokens) = i
           /\ draft_calls = 1 + K * (iters - 1) + i
           /\ main_calls = iters)
    /\ (pc = "verify" =>
           /\ i = K /\ Len(accum_draft_tokens) = K
           /\ draft_calls = 1 + K * iters
           /\ main_calls = iters)
    /\ (pc \in {"trim", "sp_loop", "done"} =>
           /\ draft_calls = 1 + K * iters
           /\ main_calls = 1 + iters)

\* a verified iteration in which K = 3 tokens were drafted with one token
\* missing before N
C19_Witness ==
    /\ pc = "trim" /\ K = 3 /\ N - SeqLenBefore = 1
    /\ Len(accum_draft_tokens) = 3
    /\ draft_calls = 1 + 3 * iters /\ main_calls = 1 + iters

\* C20: the speculative decoder runs PRIME, then DRAFT -> VERIFY -> TRIM
\* cycles, then DONE.  PRIME is entered only from the end of the naive run and
\* is the decoder's first step (no model called yet, no iteration started);
\* after PRIME and after each TRIM the loop test sends the machine to DONE iff
\* seq_len >= N and into the draft phase otherwise (straight on to VERIFY when
\* K = 0 leaves the draft phase empty); DONE has no successor; with
\* prompt_len >= N no DRAFT, VERIFY or TRIM step is taken.  A raised error ends
\* the run from any step that calls a model.
C20_ControlOrder ==
    /\ [][/\ (pc' = "sp_prime" => pc = "ar_loop")
          /\ (pc = "sp_prime" =>
                 /\ draft_calls = 0 /\ main_calls = 0 /\ iters = 0
                 /\ pc' \in {"sp_loop", "error"})
          /\ (pc = "sp_loop" =>
                 pc' = IF seq_len >= N THEN "done"
                       ELSE IF K >= 1 THEN "draft" ELSE "verify")
          /\ (pc = "draft" => pc' \in {"draft", "verify", "error"})
          /\ (pc = "verify" => pc' \in {"trim", "error"})
          /\ (pc = "trim" => pc' = "sp_loop")
          /\ pc # "done"]_vars
    /\ [](PromptLen >= N => (iters = 0 /\ pc \notin {"draft", "verify", "trim"}))

\* DONE reached after two full cycles
C20_Witness ==
    pc = "done" /\ iters >= 2 /\ K >= 2 /\ seq_len >= N /\ sp_ret # <<>>

\* C21: after PRIME each of the two models has been run exactly once, on the
\* whole prompt, both caches have length prompt_len, and the output sequence is
\* the prompt followed by exactly one token, the verifier's greedy prediction
\* after the prompt (the token the verifier-only decoder produced first).
C21_AfterPrime ==
    (pc = "sp_loop" /\ iters = 0) =>
        /\ draft_calls = 1 /\ main_calls = 1
        /\ input_ids = prompt
        /\ seq_len = PromptLen
        /\ AllLayersAt(draft_cache, PromptLen) /\ AllLayersAt(main_cache, PromptLen)
        /\ CacheToks(draft_cache) = prompt /\ CacheToks(main_cache) = prompt
        /\ Len(all_tokens) = PromptLen + 1
        /\ SubSeq(all_tokens, 1, PromptLen) = prompt
        /\ all_tokens[PromptLen + 1] = vpath[PromptLen + 1][1]
        /\ all_tokens[PromptLen + 1] = ar_all_tokens[PromptLen + 1]
        /\ first_token = all_tokens[PromptLen + 1]

\* PRIME done on a prompt of two tokens, the draft being a model of its own
C21_Witness ==
    /\ pc = "sp_loop" /\ iters = 0 /\ PromptLen = 2 /\ ~sameModel
    /\ Len(all_tokens) = 3 /\ CacheLen(main_cache, 1) = 2

\* C22: update_state with target length t sets every layer's length to
\* min(old length, t): a layer longer than t keeps its first t entries
\* unchanged, a layer of length <= t is left exactly as it was (a trim neither
\* grows nor rewrites a cache).
C22_TrimIsMin ==
    t_pc = "t1" =>
        \A l \in Layers :
            /\ CacheLen(t_cache, l) =
                   (IF CacheLen(t_orig, l) <= t_target THEN CacheLen(t_orig, l) ELSE t_target)
            /\ \A j \in 1..CacheLen(t_cache, l) : t_cache[l][j] = t_orig[l][j]
            /\ (CacheLen(t_orig, l) <= t_target => t_cache[l] = t_orig[l])

\* one update_state call that truncated a layer to a positive length and left
\* another, non-empty layer alone
C22_Witness ==
    /\ t_pc = "t1" /\ t_target > 0
    /\ \E l \in Layers : CacheLen(t_orig, l) > t_target /\ CacheLen(t_cache, l) = t_target
    /\ \E l \in Layers : CacheLen(t_orig, l) > 0 /\ CacheLen(t_orig, l) <= t_target

\* C23: after every TRIM, for both models, the cache holds exactly the entries
\* of the first seq_len tokens of the confirmed output sequence, in order: TRIM
\* keeps the first seq_len entries as they were (those of the accepted tokens
\* that were fed) and discards the rest (those of the rejected draft tokens).
C23_RetainedEntries ==
    /\ []((pc = "sp_loop" /\ iters >= 1) =>
            /\ AllLayersAt(draft_cache, seq_len) /\ AllLayersAt(main_cache, seq_len)
            /\ CacheToks(draft_cache) = SubSeq(all_tokens, 1, seq_len)
            /\ CacheToks(main_cache) = SubSeq(all_tokens, 1, seq_len))
    /\ [][(pc = "trim") =>
            \A l \in Layers :
                /\ CacheLen(draft_cache, l) >= seq_len
                /\ CacheLen(main_cache, l) >= seq_len
                /\ draft_cache'[l] = SubSeq(draft_cache[l], 1, seq_len)
                /\ main_cache'[l] = SubSeq(main_cache[l], 1, seq_len)]_vars

\* TRIM has just discarded the entries of two rejected draft tokens
C23_Witness ==
    /\ pc = "sp_loop" /\ iters >= 1 /\ K = 3 /\ disagree_idx = 0
    /\ next_tokens[1] # input_ids[2]
    /\ CacheToks(main_cache) = SubSeq(all_tokens, 1, seq_len)
\* the confirmed seq_len at the start of the current iteration (seq_len itself
\* except between VERIFY, which has already raised it, and TRIM)
IterStart == IF pc = "trim" THEN SeqLenBefore ELSE seq_len

\* C24 as claimed: each cache is at most s + K long, s being seq_len at the
\* start of the current iteration; just before TRIM both are exactly s + K
\* long; no cache is ever longer than N - 1 + K (K >= 1).
C24_CacheBoundByN ==
    /\ \A l \in Layers :
           /\ CacheLen(draft_cache, l) <= IterStart + K
           /\ CacheLen(main_cache, l) <= IterStart + K
           /\ (K >= 1 => CacheLen(draft_cache, l) <= N - 1 + K)
           /\ (K >= 1 => CacheLen(main_cache, l) <= N - 1 + K)
    /\ (pc = "trim" =>
           (AllLayersAt(draft_cache, IterStart + K) /\ AllLayersAt(main_cache, IterStart + K)))

\* C24 (amended): each cache is at most s + K long, s being seq_len at the
\* start of the current iteration; just before TRIM both are exactly s + K
\* long; no cache is ever longer than N - 1 + K when prompt_len < N, nor
\* longer than prompt_len when prompt_len >= N (PRIME caches the whole prompt
\* whatever N is).
C24_CacheBound ==
    /\ \A l \in Layers :
           /\ CacheLen(draft_cache, l) <= IterStart + K
           /\ CacheLen(main_cache, l) <= IterStart + K
           /\ CacheLen(draft_cache, l) <= (IF PromptLen < N THEN N - 1 + K ELSE PromptLen)
           /\ CacheLen(main_cache, l) <= (IF PromptLen < N THEN N - 1 + K ELSE PromptLen)
    /\ (pc = "trim" =>
           (AllLayersAt(draft_cache, IterStart + K) /\ AllLayersAt(main_cache, IterStart + K)))

\* just before TRIM in an iteration that started at seq_len = N - 1 with
\* K = 3: both caches at the largest length N - 1 + K
C24_Witness ==
    /\ pc = "trim" /\ K = 3 /\ SeqLenBefore = N - 1
    /\ AllLayersAt(draft_cache, N + 2) /\ AllLayersAt(main_cache, N + 2)

\* C25: the caches are private to their models.  A draft call leaves the
\* verifier's cache, the output sequence and seq_len as they are, and extends
\* the draft cache and the proposal batch only at their ends; the verifier's
\* batched call leaves the draft cache (and the proposal batch) as it is.
C25_PrivateCaches ==
    [][/\ (pc = "draft" =>
              /\ main_cache' = main_cache
              /\ all_tokens' = all_tokens
              /\ seq_len' = seq_len
              /\ \A l \in Layers :
                     SubSeq(draft_cache'[l], 1, CacheLen(draft_cache, l)) = draft_cache[l]
              /\ SubSeq(accum_draft_tokens', 1, Len(accum_draft_tokens)) = accum_draft_tokens)
       /\ (pc = "verify" =>
              /\ draft_cache' = draft_cache
              /\ accum_draft_tokens' = accum_draft_tokens
              /\ \A l \in Layers :
                     SubSeq(main_cache'[l], 1, CacheLen(main_cache, l)) = main_cache[l])]_vars

\* the K >= 2 draft calls of a later iteration are done: the draft cache has
\* grown by K, the verifier's cache is still at seq_len
C25_Witness ==
    /\ pc = "verify" /\ K >= 2 /\ iters >= 2
    /\ AllLayersAt(draft_cache, seq_len + K)
    /\ AllLayersAt(main_cache, seq_len)
    /\ Len(all_tokens) = seq_len + 1

\* C26: for K >= 1 the output of the naive verifier-only decoder is a prefix of
\* the output of the speculative decoder: the two agree on every position both
\* contain, and the speculative output is at least as long.
C26_NaiveIsPrefix ==
    (pc = "done" /\ K >= 1) =>
        /\ Len(ar_ret[1]) <= Len(sp_ret[1])
        /\ \A j \in 1..Len(ar_ret[1]) : ar_ret[1][j] = sp_ret[1][j]

\* C27: with prompt_len < N and K >= 1 the speculative loop ends with
\* N <= seq_len <= N + K - 1 and returns seq_len + 1 tokens, the naive decoder
\* ends with seq_len = N and returns N + 1 tokens; with prompt_len >= N both
\* return prompt_len + 1 tokens.
C27_FinalLengths ==
    (pc = "done" /\ K >= 1) =>
        IF PromptLen < N
        THEN /\ N <= seq_len /\ seq_len <= N + K - 1
             /\ Len(sp_ret[1]) = seq_len + 1
             /\ ar_seq_len = N
             /\ Len(ar_ret[1]) = N + 1
        ELSE /\ Len(sp_ret[1]) = PromptLen + 1
             /\ Len(ar_ret[1]) = PromptLen + 1

\* the speculative loop has ended at the far end of its range, K - 1 = 2
\* tokens beyond N
C27_Witness ==
    /\ pc = "done" /\ K = 3 /\ PromptLen < N
    /\ seq_len = N + 2 /\ Len(sp_ret[1]) = N + 3 /\ Len(ar_ret[1]) = N + 1

\* C28: every token fed to the draft model is fed with its zero-based index in
\* the sequence as position id (the draft cache's length just before the
\* call), the position id the verifier is fed for the same sequence position.
\* (Every cache entry records the position id its token was fed with.)
C28_DraftPositionIds ==
    /\ \A j \in 1..CacheLen(draft_cache, 1) : CachePos(draft_cache)[j] = j - 1
    /\ \A j \in 1..CacheLen(draft_cache, 1) :
           j <= CacheLen(main_cache, 1) => CachePos(draft_cache)[j] = CachePos(main_cache)[j]

\* C30: at the loop test (the start of every iteration) and at DONE the output
\* sequence has exactly seq_len + 1 tokens; its last token is the pending
\* last-accepted token, which neither cache holds yet (both caches are seq_len
\* long); the sequence is append-only from the prompt on: each value it takes
\* is a prefix of the next.
C30_OutputSequence ==
    /\ []((pc \in {"sp_loop", "done"}) =>
            /\ Len(all_tokens) = seq_len + 1
            /\ all_tokens[seq_len + 1] = first_token
            /\ AllLayersAt(draft_cache, seq_len) /\ AllLayersAt(main_cache, seq_len)
            /\ IsPrefix(prompt, all_tokens))
    /\ [][IsPrefix(all_tokens, all_tokens')]_vars

\* the loop test after two iterations, the output having grown by more than
\* one token in the second
C30_Witness ==
    /\ pc = "sp_loop" /\ iters = 2 /\ disagree_idx >= 1
    /\ Len(all_tokens) = seq_len + 1 /\ Len(all_tokens) >= PromptLen + 4\* C29: every token of the returned sequence after the prompt is a prediction
\* of the verifier: PRIME appends the verifier's first token, an iteration
\* appends verify[0..disagree_idx] and nothing of the draft's own, whatever
\* the draft proposed; the proposal batch is empty at every loop test, so the
\* final extend adds nothing and the output sequence is returned as it is.
C29_OnlyVerifierTokens ==
    /\ [](pc = "sp_loop" => accum_draft_tokens = <<>>)
    /\ [][/\ ((pc = "sp_prime" /\ pc' = "sp_loop") =>
                 all_tokens' = prompt \o <<first_token'>>)
          /\ ((pc = "verify" /\ pc' = "trim") =>
                 /\ Len(all_tokens') - Len(all_tokens) <= Len(next_tokens')
                 /\ \A j \in 1..(Len(all_tokens') - Len(all_tokens)) :
                        all_tokens'[Len(all_tokens) + j] = next_tokens'[j])
          /\ (pc \in {"sp_loop", "draft", "trim"} => all_tokens' = all_tokens)
          /\ (pc' = "done" => sp_ret' = <<all_tokens>>)]_vars

\* the run has returned; in its last iteration the first of K >= 2 proposals
\* was rejected and the verifier's token stands at the end of the output
C29_Witness ==
    /\ pc = "done" /\ K >= 2 /\ iters >= 1
    /\ input_ids[2] # next_tokens[1]
    /\ sp_ret = <<all_tokens>>
    /\ all_tokens[Len(all_tokens)] = next_tokens[1]
====
